---- MODULE Spec2Model ----
(***************************************************************************)
(* State-machine model of the us-time-backend HTTP service: the simple     *)
(* CRUD surface (src/app.py), the versioned /api surface                   *)
(* (src/migration/app.py) and the four tables of src/models.py.            *)
(*                                                                         *)
(* A Python str that the code inspects character by character (an answer,  *)
(* a JSON text) is a sequence of one-character tokens; the two characters  *)
(* that JSON escapes are the tokens DQ (double quote) and BS (backslash).  *)
(* Strings the code only compares or copies (names, messages, session      *)
(* tokens) are TLA+ strings.                                               *)
(***************************************************************************)
EXTENDS Integers, Sequences, FiniteSets, TLC

\* ------------------------------------------------------------------ bounds

\* Largest primary key the model lets the disorders table hand out.
MaxDisorderId == 3
\* Largest primary key the model lets the assessments table hand out.
MaxAssessmentId == 2
\* How many times the model lets seed-data insert its rows.
MaxSeeds == 2
\* Longest answer list the scoring specification enumerates.
MaxAnswers == 6

\* ------------------------------------------------------- program constants

\* len(assessment.answers) < 5 is rejected.
MinAnswers == 5
\* yes_count >= 4 is the high tier.
HighThreshold == 4
\* yes_count >= 2 is the medium tier.
MediumThreshold == 2

\* ------------------------------------------------------------ Python strings

DQ == "dq"
BS == "bs"

UpperChars == <<"A","B","C","D","E","F","G","H","I","J","K","L","M",
                "N","O","P","Q","R","S","T","U","V","W","X","Y","Z">>
LowerChars == <<"a","b","c","d","e","f","g","h","i","j","k","l","m",
                "n","o","p","q","r","s","t","u","v","w","x","y","z">>

\* str.lower() on one character.
LowerChar(c) ==
    IF \E i \in DOMAIN UpperChars : UpperChars[i] = c
    THEN LowerChars[CHOOSE i \in DOMAIN UpperChars : UpperChars[i] = c]
    ELSE c

\* str.lower()
Lower(s) == [i \in DOMAIN s |-> LowerChar(s[i])]

\* The literal "yes" of calculate_assessment_result.
YesLiteral == <<"y","e","s">>

\* ------------------------------------------------------------ JSON column
\* Column(JSON): json.dumps on the way in, json.loads on the way out.
\* A value is a str or a list of str.

PyStr(s) == [t |-> "str", s |-> s, l |-> <<>>]
PyList(l) == [t |-> "list", s |-> <<>>, l |-> l]

RECURSIVE Concat(_)
Concat(ss) == IF ss = <<>> THEN <<>> ELSE Head(ss) \o Concat(Tail(ss))

\* Mutant of JsonEscapeChar: nothing is escaped.
JsonEscapeCharNone(c) == <<c>>

\* json.dumps escapes the double quote and the backslash.
JsonEscapeChar(c) == IF c = DQ \/ c = BS THEN <<BS, c>> ELSE <<c>>

JsonEncodeStr(s) ==
    <<DQ>> \o Concat([i \in DOMAIN s |-> JsonEscapeChar(s[i])]) \o <<DQ>>

\* json.dumps of a list: items separated by ", ".
JsonEncodeList(l) ==
    <<"[">> \o
    Concat([i \in DOMAIN l |->
              (IF i = 1 THEN <<>> ELSE <<",", " ">>) \o JsonEncodeStr(l[i])])
    \o <<"]">>

JsonEncode(v) == IF v.t = "str" THEN JsonEncodeStr(v.s) ELSE JsonEncodeList(v.l)

\* json.loads: a string literal, read from the character after its opening
\* quote; returns the string and the position after the closing quote.
RECURSIVE JsonParseStr(_, _, _)
JsonParseStr(txt, i, acc) ==
    IF i > Len(txt) THEN [v |-> acc, next |-> i]
    ELSE IF txt[i] = DQ THEN [v |-> acc, next |-> i + 1]
    ELSE IF txt[i] = BS /\ i < Len(txt)
         THEN JsonParseStr(txt, i + 2, Append(acc, txt[i + 1]))
    ELSE JsonParseStr(txt, i + 1, Append(acc, txt[i]))

\* json.loads: the items of a list, read from position i.
RECURSIVE JsonParseItems(_, _, _)
JsonParseItems(txt, i, acc) ==
    IF i > Len(txt) THEN acc
    ELSE IF txt[i] = "]" THEN acc
    ELSE IF txt[i] = "," \/ txt[i] = " " THEN JsonParseItems(txt, i + 1, acc)
    ELSE IF txt[i] = DQ
         THEN LET r == JsonParseStr(txt, i + 1, <<>>)
              IN JsonParseItems(txt, r.next, Append(acc, r.v))
    ELSE acc

JsonDecode(txt) ==
    IF txt # <<>> /\ txt[1] = "["
    THEN PyList(JsonParseItems(txt, 2, <<>>))
    ELSE PyStr(JsonParseStr(txt, 2, <<>>).v)

\* suggested_disorder_ids: NULL, or a JSON array of ids.
NullIds == [null |-> TRUE, ids |-> <<>>]
JsonIds(ids) == [null |-> FALSE, ids |-> ids]

\* ------------------------------------------------------------ scoring engine

HighResult == "Based on your responses, you may be experiencing significant symptoms. Professional support is recommended."
MediumResult == "You're showing some symptoms that may benefit from attention and self-care."
LowResult == "Your responses suggest you're managing well. Continue healthy habits."

HighRemedies == << "Consult with a mental health professional",
                   "Consider therapy or counseling",
                   "Practice daily self-care routines",
                   "Reach out to support networks",
                   "Consider medication evaluation with a doctor" >>
MediumRemedies == << "Practice mindfulness and meditation",
                     "Maintain a consistent daily routine",
                     "Engage in regular physical activity",
                     "Connect with friends and family",
                     "Monitor your symptoms over time" >>
LowRemedies == << "Continue with your current healthy routines",
                  "Stay connected with your support system",
                  "Practice stress management techniques",
                  "Regular mental health check-ins",
                  "Help others who may be struggling" >>

\* Mutant of YesCount: the comparison without .lower().
RECURSIVE YesCountCaseSensitive(_)
YesCountCaseSensitive(answers) ==
    IF answers = <<>> THEN 0
    ELSE (IF Head(answers) = YesLiteral THEN 1 ELSE 0)
         + YesCountCaseSensitive(Tail(answers))

\* sum(1 for answer in answers if answer.lower() == "yes")
RECURSIVE YesCount(_)
YesCount(answers) ==
    IF answers = <<>> THEN 0
    ELSE (IF Lower(Head(answers)) = YesLiteral THEN 1 ELSE 0)
         + YesCount(Tail(answers))

calculate_assessment_result(answers) ==
    LET yes_count == YesCount(answers) IN
    IF yes_count >= HighThreshold
    THEN [result |-> HighResult, severity |-> "high",
          severity_score |-> yes_count, remedies |-> HighRemedies]
    ELSE IF yes_count >= MediumThreshold
    THEN [result |-> MediumResult, severity |-> "medium",
          severity_score |-> yes_count, remedies |-> MediumRemedies]
    ELSE [result |-> LowResult, severity |-> "low",
          severity_score |-> yes_count, remedies |-> LowRemedies]

\* ------------------------------------------------------------------- state

VARIABLES
    disorders,    \* table disorders: id -> [name, description, symptoms]
    remedies,     \* table remedies: id -> [disorder_id, title, description, category]
    assessments,  \* table assessments: id -> [session_id, answers, result,
                  \*                           severity_score, suggested_disorder_ids]
    questions,    \* table questions: id -> [text, category, weight, order_index, is_active]
    last,         \* the request handled last and the response it got
    requests,     \* the requests in flight, handled statement by statement:
                  \*   request -> its position, its locals and its response
    sessions      \* the store sessions get_db has made: session -> [state, ...]

vars == <<disorders, remedies, assessments, questions, last, requests, sessions>>

\* A handler taken as one step runs get_db, its body and get_db's finally
\* within that step: it leaves no request in flight and no session open.
inflight == <<requests, sessions>>

\* ------------------------------------------------------------------ the store

EmptyTable == [i \in {} |-> 0]

Max(S) == CHOOSE x \in S : \A y \in S : y <= x

\* Column(Integer, primary_key=True) on SQLite: an INTEGER PRIMARY KEY without
\* AUTOINCREMENT, so a new row gets the largest id in use plus one.
NextId(tbl) == IF DOMAIN tbl = {} THEN 1 ELSE Max(DOMAIN tbl) + 1

Insert(tbl, id, row) ==
    [i \in DOMAIN tbl \cup {id} |-> IF i = id THEN row ELSE tbl[i]]

Delete(tbl, ids) == [i \in DOMAIN tbl \ ids |-> tbl[i]]

\* query(...).filter(...).first()
First(tbl, ids) == IF ids = {} THEN 0 ELSE CHOOSE i \in ids : \A j \in ids : i <= j

\* Mutant of SessionIdUnique: the column without unique=True.
SessionIdUnchecked(tbl, id, session_id) == TRUE

\* Column(String, unique=True) of Assessment.session_id: TRUE when the store
\* accepts a row `id` holding session_id (no other row holds it).
SessionIdUnique(tbl, id, session_id) ==
    \A j \in DOMAIN tbl : j # id => tbl[j].session_id # session_id

\* ----------------------------------------------------- requests and responses

NoAnswers == PyList(<<>>)

\* A response with every field at its default.
Resp(op, status, detail) ==
    [op |-> op, status |-> status, detail |-> detail,
     req_id |-> 0, req_name |-> "", req_description |-> "", req_symptoms |-> "",
     req_session_id |-> "", req_answers |-> NoAnswers,
     ids |-> {}, name |-> "", description |-> "", symptoms |-> "",
     session_id |-> "", answers |-> NoAnswers, result |-> "",
     severity |-> "", severity_score |-> 0, remedies |-> <<>>]

\* A commit the store refuses (sqlalchemy IntegrityError) is not caught by any
\* handler: the framework answers 500 "Internal Server Error" and get_db closes
\* the session, which rolls the transaction back.

\* ------------------------------------------------------------------- inputs

Yes == <<"y","e","s">>
YesUpper == <<"Y","E","S">>
YesMixed == <<"Y","e","s">>
No == <<"n","o">>
Unsure == <<"u","n","s","u","r","e">>
Empty == <<>>
\* An answer holding the characters JSON escapes and the list separator.
Quoted == <<DQ, "y", "e", "s", DQ, ",", " ", BS>>

\* The answers a respondent may give.
AnswerAlphabet == {Yes, YesUpper, YesMixed, No, Unsure, Empty}

\* The answer lists submitted to POST /api/assessments.
AnswerLists ==
    { <<>>,
      <<Yes, Yes, Yes, Yes>>,
      <<Yes, Yes, Yes, Yes, No>>,
      <<No, No, Unsure, No, Yes>>,
      <<YesUpper, Quoted, Empty, YesMixed, Unsure>>,
      <<Yes, Yes, Yes, Yes, Yes, Yes>> }

\* Values uuid.uuid4() may return.
Uuids == {"uuid-1", "uuid-2"}

\* Session ids a client may send to the simple surface.
ClientSessionIds == {"session123", "uuid-1"}

\* Bodies sent to POST /assessment and PATCH /assessment/{id}.
AssessmentSchemas ==
    { [session_id |-> sid, answers |-> <<"y","e","s",",","n","o">>,
       result |-> "medium", severity_score |-> 3, disorder_id |-> 1]
        : sid \in ClientSessionIds }
    \cup
    { [session_id |-> "session123", answers |-> <<"n","o",",",DQ>>,
       result |-> "low", severity_score |-> 2, disorder_id |-> 1] }

AssessmentIds == 1 .. (MaxAssessmentId + 1)

\* ------------------------------------------------ /api/assessments (migration)

\* Mutant of ValidationError: the length check off by one.
ValidationErrorOffByOne(answers) ==
    IF answers = <<>> THEN "Answers are required"
    ELSE IF Len(answers) < MinAnswers - 1 THEN "Please answer all questions"
    ELSE ""

\* "Validate input": the detail of the 400 the request gets, "" when it passes.
ValidationError(answers) ==
    IF answers = <<>> THEN "Answers are required"
    ELSE IF Len(answers) < MinAnswers THEN "Please answer all questions"
    ELSE ""

\* Mutant of NewAssessment: the tier stored in the result column.
NewAssessmentTier(session_id, answers, result_data) ==
    [session_id |-> session_id,
     answers |-> JsonEncode(PyList(answers)),
     result |-> result_data.severity,
     severity_score |-> result_data.severity_score,
     suggested_disorder_ids |-> NullIds]

\* db_assessment = Assessment(...): the row the submission stores.
NewAssessment(session_id, answers, result_data) ==
    [session_id |-> session_id,
     answers |-> JsonEncode(PyList(answers)),
     result |-> result_data.result,
     severity_score |-> result_data.severity_score,
     suggested_disorder_ids |-> NullIds]

\* POST /api/assessments
api_create_assessment(answers, uuid) ==
    LET req == [Resp("api_create_assessment", 200, "") EXCEPT
                    !.req_answers = PyList(answers)]
        result_data == calculate_assessment_result(answers)
        id == NextId(assessments)
        db_assessment == NewAssessment(uuid, answers, result_data)
    IN
    /\ IF ValidationError(answers) # ""
       THEN /\ last' = [req EXCEPT !.status = 400,
                                   !.detail = ValidationError(answers)]
            /\ UNCHANGED assessments
       ELSE IF ~SessionIdUnique(assessments, id, uuid)
       THEN /\ last' = [req EXCEPT !.status = 500, !.detail = "Internal Server Error"]
            /\ UNCHANGED assessments
       ELSE /\ id <= MaxAssessmentId
            /\ assessments' = Insert(assessments, id, db_assessment)
            /\ last' = [req EXCEPT !.session_id = uuid,
                                   !.result = result_data.result,
                                   !.remedies = result_data.remedies,
                                   !.severity = result_data.severity,
                                   !.severity_score = result_data.severity_score]
    /\ UNCHANGED <<disorders, remedies, questions, requests, sessions>>

\* The body FastAPI serialises for an Assessment row.
AssessmentBody(op, row) ==
    [Resp(op, 200, "") EXCEPT
        !.session_id = row.session_id,
        !.answers = JsonDecode(row.answers),
        !.result = row.result,
        !.severity_score = row.severity_score]

\* GET /api/assessments/{session_id}: the response, as a function of the store.
api_get_assessment_response(tbl, session_id) ==
    LET id == First(tbl, {i \in DOMAIN tbl : tbl[i].session_id = session_id}) IN
    [(IF id = 0
      THEN Resp("api_get_assessment", 404, "Assessment not found")
      ELSE [AssessmentBody("api_get_assessment", tbl[id]) EXCEPT !.ids = {id}])
     EXCEPT !.req_session_id = session_id]

\* GET /api/assessments/{session_id}
api_get_assessment(session_id) ==
    /\ last' = api_get_assessment_response(assessments, session_id)
    /\ UNCHANGED <<disorders, remedies, assessments, questions, requests, sessions>>

\* ------------------------------------------------------ /assessment (simple)

AssessmentRow(assessment) ==
    [session_id |-> assessment.session_id,
     answers |-> JsonEncode(PyStr(assessment.answers)),
     result |-> assessment.result,
     severity_score |-> assessment.severity_score,
     suggested_disorder_ids |-> JsonIds(<<assessment.disorder_id>>)]

\* POST /assessment
create_assessment(assessment) ==
    LET req == [Resp("create_assessment", 200, "Assessment added successfully")
                    EXCEPT !.req_session_id = assessment.session_id,
                           !.req_answers = PyStr(assessment.answers)]
        id == NextId(assessments)
    IN
    /\ IF ~SessionIdUnique(assessments, id, assessment.session_id)
       THEN /\ last' = [req EXCEPT !.status = 500, !.detail = "Internal Server Error"]
            /\ UNCHANGED assessments
       ELSE /\ id <= MaxAssessmentId
            /\ assessments' = Insert(assessments, id, AssessmentRow(assessment))
            /\ last' = req
    /\ UNCHANGED <<disorders, remedies, questions, requests, sessions>>

\* GET /assessment
get_assessments ==
    /\ last' = [Resp("get_assessments", 200, "") EXCEPT !.ids = DOMAIN assessments]
    /\ UNCHANGED <<disorders, remedies, assessments, questions, requests, sessions>>

\* GET /assessment/{assessment_id}
get_assessment(assessment_id) ==
    /\ last' = [(IF assessment_id \notin DOMAIN assessments
                 THEN Resp("get_assessment", 404, "Assessment not found")
                 ELSE [AssessmentBody("get_assessment", assessments[assessment_id])
                          EXCEPT !.ids = {assessment_id}])
                EXCEPT !.req_id = assessment_id]
    /\ UNCHANGED <<disorders, remedies, assessments, questions, requests, sessions>>

\* PATCH /assessment/{assessment_id}
update_assessment(assessment_id, assessment) ==
    LET req == [Resp("update_assessment", 200, "Assessment updated successfully")
                    EXCEPT !.req_id = assessment_id,
                           !.req_session_id = assessment.session_id,
                           !.req_answers = PyStr(assessment.answers)]
    IN
    /\ IF assessment_id \notin DOMAIN assessments
       THEN /\ last' = [req EXCEPT !.status = 404, !.detail = "Assessment not found"]
            /\ UNCHANGED assessments
       ELSE IF ~SessionIdUnique(assessments, assessment_id, assessment.session_id)
       THEN /\ last' = [req EXCEPT !.status = 500, !.detail = "Internal Server Error"]
            /\ UNCHANGED assessments
       ELSE /\ assessments' = [assessments EXCEPT
                                  ![assessment_id] = AssessmentRow(assessment)]
            /\ last' = req
    /\ UNCHANGED <<disorders, remedies, questions, requests, sessions>>

\* Mutant of delete_assessment: a missing row is not looked for.
delete_assessment_idempotent(assessment_id) ==
    /\ assessments' = Delete(assessments, {assessment_id})
    /\ last' = [Resp("delete_assessment", 200, "Assessment deleted successfully")
                   EXCEPT !.req_id = assessment_id]
    /\ UNCHANGED <<disorders, remedies, questions, requests, sessions>>

\* DELETE /assessment/{assessment_id}
delete_assessment(assessment_id) ==
    LET req == [Resp("delete_assessment", 200, "Assessment deleted successfully")
                    EXCEPT !.req_id = assessment_id]
    IN
    /\ IF assessment_id \notin DOMAIN assessments
       THEN /\ last' = [req EXCEPT !.status = 404, !.detail = "Assessment not found"]
            /\ UNCHANGED assessments
       ELSE /\ assessments' = Delete(assessments, {assessment_id})
            /\ last' = req
    /\ UNCHANGED <<disorders, remedies, questions, requests, sessions>>

\* ------------------------------------------------------------ disorder inputs

\* Bodies sent to POST /disorder and PATCH /disorder/{id}.
DisorderSchemas ==
    { [name |-> "Anxiety Disorder",
       description |-> "A mental health condition characterized by excessive worry.",
       symptoms |-> "Restlessness, rapid heartbeat, sweating"],
      [name |-> "Anxiety Disorder",
       description |-> "Updated description.",
       symptoms |-> "Updated symptoms"],
      [name |-> "Updated Anxiety Disorder",
       description |-> "Updated description.",
       symptoms |-> "Updated symptoms"] }

DisorderIds == 1 .. (MaxDisorderId + 1)

\* ------------------------------------------------------------ store constraints

\* Mutant of DisorderNameUnique: the column without unique=True.
DisorderNameUnchecked(tbl, id, name) == TRUE

\* Column(String, unique=True) of Disorder.name: TRUE when the store accepts
\* a row `id` holding `name` (no other row holds it).
DisorderNameUnique(tbl, id, name) ==
    \A j \in DOMAIN tbl : j # id => tbl[j].name # name

\* Mutant of CascadeRemedies: the relationship without the delete cascade.
CascadeNone(tbl, disorder_id) == {}

\* relationship("Remedy", cascade="all, delete"): the Remedy rows deleted
\* together with Disorder `disorder_id`.
CascadeRemedies(tbl, disorder_id) ==
    {r \in DOMAIN tbl : tbl[r].disorder_id = disorder_id}

\* -------------------------------------------------------- /disorder (simple)

\* Mutant of create_disorder: an existing row is overwritten with the body.
create_disorder_overwrite(disorder) ==
    LET req == [Resp("create_disorder", 200, "Disorder created successfully")
                    EXCEPT !.req_name = disorder.name,
                           !.req_description = disorder.description,
                           !.req_symptoms = disorder.symptoms]
        existing == First(disorders,
                          {i \in DOMAIN disorders : disorders[i].name = disorder.name})
        id == IF existing = 0 THEN NextId(disorders) ELSE existing
    IN
    /\ id <= MaxDisorderId
    /\ disorders' = Insert(disorders, id,
                           [name |-> disorder.name,
                            description |-> disorder.description,
                            symptoms |-> disorder.symptoms])
    /\ last' = IF existing = 0 THEN req
               ELSE [req EXCEPT !.detail = "Disorder already exists"]
    /\ UNCHANGED <<remedies, assessments, questions, requests, sessions>>

\* POST /disorder
create_disorder(disorder) ==
    LET req == [Resp("create_disorder", 200, "Disorder created successfully")
                    EXCEPT !.req_name = disorder.name,
                           !.req_description = disorder.description,
                           !.req_symptoms = disorder.symptoms]
        existing == First(disorders,
                          {i \in DOMAIN disorders : disorders[i].name = disorder.name})
        id == NextId(disorders)
    IN
    /\ IF existing = 0
       THEN /\ id <= MaxDisorderId
            /\ disorders' = Insert(disorders, id,
                                   [name |-> disorder.name,
                                    description |-> disorder.description,
                                    symptoms |-> disorder.symptoms])
            /\ last' = req
       ELSE /\ last' = [req EXCEPT !.detail = "Disorder already exists"]
            /\ UNCHANGED disorders
    /\ UNCHANGED <<remedies, assessments, questions, requests, sessions>>

\* GET /disorder
get_disorders ==
    /\ last' = [Resp("get_disorders", 200, "") EXCEPT !.ids = DOMAIN disorders]
    /\ UNCHANGED <<disorders, remedies, assessments, questions, requests, sessions>>

\* GET /disorder/{disorder_id}
get_disorder(disorder_id) ==
    /\ last' = [(IF disorder_id \notin DOMAIN disorders
                 THEN Resp("get_disorder", 404, "Disorder not found")
                 ELSE [Resp("get_disorder", 200, "") EXCEPT
                          !.ids = {disorder_id},
                          !.name = disorders[disorder_id].name,
                          !.description = disorders[disorder_id].description,
                          !.symptoms = disorders[disorder_id].symptoms])
                EXCEPT !.req_id = disorder_id]
    /\ UNCHANGED <<disorders, remedies, assessments, questions, requests, sessions>>

\* Mutant of update_disorder: the symptoms are not copied from the body.
update_disorder_no_symptoms(disorder_id, disorder) ==
    LET req == [Resp("update_disorder", 200, "Disorder updated successfully")
                    EXCEPT !.req_id = disorder_id,
                           !.req_name = disorder.name,
                           !.req_description = disorder.description,
                           !.req_symptoms = disorder.symptoms]
    IN
    /\ IF disorder_id \notin DOMAIN disorders
       THEN /\ last' = [req EXCEPT !.status = 404, !.detail = "Disorder not found"]
            /\ UNCHANGED disorders
       ELSE IF ~DisorderNameUnique(disorders, disorder_id, disorder.name)
       THEN /\ last' = [req EXCEPT !.status = 500, !.detail = "Internal Server Error"]
            /\ UNCHANGED disorders
       ELSE /\ disorders' = [disorders EXCEPT
                                ![disorder_id].name = disorder.name,
                                ![disorder_id].description = disorder.description]
            /\ last' = req
    /\ UNCHANGED <<remedies, assessments, questions, requests, sessions>>

\* PATCH /disorder/{disorder_id}
update_disorder(disorder_id, disorder) ==
    LET req == [Resp("update_disorder", 200, "Disorder updated successfully")
                    EXCEPT !.req_id = disorder_id,
                           !.req_name = disorder.name,
                           !.req_description = disorder.description,
                           !.req_symptoms = disorder.symptoms]
    IN
    /\ IF disorder_id \notin DOMAIN disorders
       THEN /\ last' = [req EXCEPT !.status = 404, !.detail = "Disorder not found"]
            /\ UNCHANGED disorders
       ELSE IF ~DisorderNameUnique(disorders, disorder_id, disorder.name)
       THEN /\ last' = [req EXCEPT !.status = 500, !.detail = "Internal Server Error"]
            /\ UNCHANGED disorders
       ELSE /\ disorders' = [disorders EXCEPT
                                ![disorder_id] = [name |-> disorder.name,
                                                  description |-> disorder.description,
                                                  symptoms |-> disorder.symptoms]]
            /\ last' = req
    /\ UNCHANGED <<remedies, assessments, questions, requests, sessions>>

\* DELETE /disorder/{disorder_id}
delete_disorder(disorder_id) ==
    LET req == [Resp("delete_disorder", 200, "Disorder deleted successfully")
                    EXCEPT !.req_id = disorder_id]
    IN
    /\ IF disorder_id \notin DOMAIN disorders
       THEN /\ last' = [req EXCEPT !.status = 404, !.detail = "Disorder not found"]
            /\ UNCHANGED <<disorders, remedies>>
       ELSE /\ disorders' = Delete(disorders, {disorder_id})
            /\ remedies' = Delete(remedies, CascadeRemedies(remedies, disorder_id))
            /\ last' = req
    /\ UNCHANGED <<assessments, questions, requests, sessions>>

\* ------------------------------------------------------- /api reads (migration)

\* remedy.title for the remedies of one disorder, in primary-key order.
RECURSIVE RemedyTitles(_, _)
RemedyTitles(tbl, ids) ==
    IF ids = {} THEN <<>>
    ELSE LET r == First(tbl, ids)
         IN <<tbl[r].title>> \o RemedyTitles(tbl, ids \ {r})

\* GET /api/disorders
api_get_disorders ==
    /\ last' = [Resp("api_get_disorders", 200, "") EXCEPT !.ids = DOMAIN disorders]
    /\ UNCHANGED <<disorders, remedies, assessments, questions, requests, sessions>>

\* GET /api/disorders/{disorder_id}
api_get_disorder(disorder_id) ==
    /\ last' = [(IF disorder_id \notin DOMAIN disorders
                 THEN Resp("api_get_disorder", 404, "Disorder not found")
                 ELSE [Resp("api_get_disorder", 200, "") EXCEPT
                          !.ids = {disorder_id},
                          !.name = disorders[disorder_id].name,
                          !.description = disorders[disorder_id].description,
                          !.symptoms = disorders[disorder_id].symptoms,
                          !.remedies = RemedyTitles(remedies,
                              {r \in DOMAIN remedies :
                                  remedies[r].disorder_id = disorder_id})])
                EXCEPT !.req_id = disorder_id]
    /\ UNCHANGED <<disorders, remedies, assessments, questions, requests, sessions>>

\* GET /api/questions: the active questions, by order_index.
api_get_questions ==
    /\ last' = [Resp("api_get_questions", 200, "") EXCEPT
                   !.ids = {q \in DOMAIN questions : questions[q].is_active = 1}]
    /\ UNCHANGED <<disorders, remedies, assessments, questions, requests, sessions>>

\* GET /api/remedies
api_get_remedies ==
    /\ last' = [Resp("api_get_remedies", 200, "") EXCEPT !.ids = DOMAIN remedies]
    /\ UNCHANGED <<disorders, remedies, assessments, questions, requests, sessions>>

\* GET /api/remedies/{remedy_id}: the response, as a function of the store.
api_get_remedy_response(tbl, remedy_id) ==
    [(IF remedy_id \notin DOMAIN tbl
      THEN Resp("api_get_remedy", 404, "Remedy not found")
      ELSE [Resp("api_get_remedy", 200, "") EXCEPT
               !.ids = {remedy_id},
               !.name = tbl[remedy_id].title,
               !.description = tbl[remedy_id].description])
     EXCEPT !.req_id = remedy_id]

\* GET /api/remedies/{remedy_id}
api_get_remedy(remedy_id) ==
    /\ last' = api_get_remedy_response(remedies, remedy_id)
    /\ UNCHANGED <<disorders, remedies, assessments, questions, requests, sessions>>

\* ------------------------------------------------ /api/seed-data (migration)

\* disorders_data
disorders_data ==
    << [name |-> "Depression",
       description |-> "A mental health disorder characterized by persistent sadness, loss of interest in activities, and difficulty carrying out daily tasks.",
       symptoms |-> "Persistent sadness, hopelessness, loss of interest, sleep disturbances, changes in appetite, fatigue, difficulty concentrating"],
       [name |-> "Anxiety Disorder",
       description |-> "Excessive worry, fear, or anxiety that interferes with daily activities and is difficult to control.",
       symptoms |-> "Excessive worry, restlessness, fatigue, difficulty concentrating, irritability, muscle tension, sleep problems"],
       [name |-> "Bipolar Disorder",
       description |-> "A disorder associated with episodes of mood swings ranging from depressive lows to manic highs.",
       symptoms |-> "Mood swings, manic episodes, depressive episodes, racing thoughts, irritability, sleep changes, risk-taking behavior"] >>

\* remedies_data; `created` is the index into created_disorders, from 1.
remedies_data ==
    << [created |-> 1,
       title |-> "Cognitive Behavioral Therapy",
       description |-> "A type of psychotherapy that helps identify and change negative thought patterns.",
       category |-> "therapy"],
       [created |-> 1,
       title |-> "Antidepressant Medication",
       description |-> "Medications that can help relieve symptoms of depression.",
       category |-> "medication"],
       [created |-> 1,
       title |-> "Regular Exercise",
       description |-> "Physical activity releases endorphins and improves mood.",
       category |-> "lifestyle"],
       [created |-> 2,
       title |-> "Exposure Therapy",
       description |-> "Gradual exposure to feared situations to reduce anxiety.",
       category |-> "therapy"],
       [created |-> 2,
       title |-> "Mindfulness Meditation",
       description |-> "Practice focusing on the present moment to reduce worry.",
       category |-> "lifestyle"],
       [created |-> 2,
       title |-> "Anti-anxiety Medication",
       description |-> "Medications that can help reduce anxiety symptoms.",
       category |-> "medication"],
       [created |-> 3,
       title |-> "Mood Stabilizers",
       description |-> "Medications that help control mood swings.",
       category |-> "medication"],
       [created |-> 3,
       title |-> "Psychoeducation",
       description |-> "Learning about the disorder and developing coping strategies.",
       category |-> "therapy"],
       [created |-> 3,
       title |-> "Regular Sleep Schedule",
       description |-> "Maintaining consistent sleep patterns to help stabilize mood.",
       category |-> "lifestyle"] >>

\* questions_data; is_active takes its column default, 1.
questions_data ==
    << [text |-> "Have you experienced persistent feelings of sadness or hopelessness?",
       category |-> "mood",
       weight |-> 2,
       order_index |-> 1,
       is_active |-> 1],
       [text |-> "Have you lost interest or pleasure in activities you used to enjoy?",
       category |-> "interest",
       weight |-> 2,
       order_index |-> 2,
       is_active |-> 1],
       [text |-> "Have you noticed changes in your appetite or weight?",
       category |-> "appetite",
       weight |-> 1,
       order_index |-> 3,
       is_active |-> 1],
       [text |-> "Do you have trouble sleeping or sleep too much?",
       category |-> "sleep",
       weight |-> 1,
       order_index |-> 4,
       is_active |-> 1],
       [text |-> "Do you often feel tired or lack energy?",
       category |-> "energy",
       weight |-> 1,
       order_index |-> 5,
       is_active |-> 1] >>

\* Rows `rows` inserted into tbl one after the other, each at the next id.
RECURSIVE InsertAll(_, _)
InsertAll(tbl, rows) ==
    IF rows = <<>> THEN tbl
    ELSE InsertAll(Insert(tbl, NextId(tbl), Head(rows)), Tail(rows))

\* How many times seed-data has inserted its rows (questions are never deleted).
SeedsDone == Cardinality(DOMAIN questions) \div Len(questions_data)

\* Mutant of CreatedIds: the list index taken for the id.
CreatedIdsByIndex(first) == [k \in DOMAIN disorders_data |-> first + k]

\* created_disorders[k].id: each disorder is added and flushed in turn, so the
\* ids are consecutive from the table's next id.
CreatedIds(first) == [k \in DOMAIN disorders_data |-> first + k - 1]

\* POST /api/seed-data
seed_initial_data ==
    LET disorder_count == Cardinality(DOMAIN disorders)
        first == NextId(disorders)
        created == CreatedIds(first)
        remedy_rows == [k \in DOMAIN remedies_data |->
                           [disorder_id |-> created[remedies_data[k].created],
                            title |-> remedies_data[k].title,
                            description |-> remedies_data[k].description,
                            category |-> remedies_data[k].category]]
    IN
    IF disorder_count > 0
    THEN /\ last' = Resp("seed_initial_data", 200, "Data already seeded")
         /\ UNCHANGED <<disorders, remedies, assessments, questions, requests, sessions>>
    ELSE /\ SeedsDone < MaxSeeds
         /\ first + Len(disorders_data) - 1 <= MaxDisorderId
         /\ disorders' = InsertAll(disorders, disorders_data)
         /\ remedies' = InsertAll(remedies, remedy_rows)
         /\ questions' = InsertAll(questions, questions_data)
         /\ last' = [Resp("seed_initial_data", 200, "Database seeded successfully")
                        EXCEPT !.ids = {created[k] : k \in DOMAIN created}]
         /\ UNCHANGED <<assessments, requests, sessions>>

RemedyIds == 1 .. (Len(remedies_data) + 1)

\* ------------------------------------------------------------ specifications

\* The service after start-up: create_all has made four empty tables.
Init ==
    /\ disorders = EmptyTable
    /\ remedies = EmptyTable
    /\ assessments = EmptyTable
    /\ questions = EmptyTable
    /\ last = Resp("start", 200, "")
    /\ requests = EmptyTable
    /\ sessions = EmptyTable

NextAssessment ==
    \/ \E answers \in AnswerLists, uuid \in Uuids : api_create_assessment(answers, uuid)
    \/ \E session_id \in Uuids \cup ClientSessionIds : api_get_assessment(session_id)
    \/ \E assessment \in AssessmentSchemas : create_assessment(assessment)
    \/ get_assessments
    \/ \E id \in AssessmentIds : get_assessment(id)
    \/ \E id \in AssessmentIds, assessment \in AssessmentSchemas :
           update_assessment(id, assessment)
    \/ \E id \in AssessmentIds : delete_assessment(id)

NextDisorder ==
    \/ \E disorder \in DisorderSchemas : create_disorder(disorder)
    \/ get_disorders
    \/ \E id \in DisorderIds : get_disorder(id)
    \/ \E id \in DisorderIds, disorder \in DisorderSchemas : update_disorder(id, disorder)
    \/ \E id \in DisorderIds : delete_disorder(id)
    \/ api_get_disorders
    \/ \E id \in DisorderIds : api_get_disorder(id)
    \/ api_get_questions
    \/ api_get_remedies
    \/ \E id \in RemedyIds : api_get_remedy(id)
    \/ seed_initial_data

\* No disorder request reads or writes the assessments table and no assessment
\* request reads or writes the other three, so the reachable stores of Spec are
\* the pairs of a store of SpecDisorder and a store of SpecAssessment.
Next == NextDisorder \/ NextAssessment

\* Every request of both surfaces.
Spec == Init /\ [][Next]_vars

\* The disorder, remedy, question and seed-data requests of both surfaces.
SpecDisorder == Init /\ [][NextDisorder]_vars

\* The inputs of the specification that takes the requests of both surfaces
\* on all four tables together: a part of the inputs above.
CrudDisorderSchemas == {d \in DisorderSchemas : d.description = "Updated description."}
CrudAnswerLists == {a \in AnswerLists : Len(a) = MinAnswers /\ a[1] = Yes}
CrudUuids == {"uuid-1"}
CrudAssessmentSchemas == {a \in AssessmentSchemas : a.result = "low"}
CrudRemedyIds == {1, Len(remedies_data), Len(remedies_data) + 1}

NextCrud ==
    \/ \E disorder \in CrudDisorderSchemas : create_disorder(disorder)
    \/ \E id \in DisorderIds : get_disorder(id)
    \/ \E id \in DisorderIds, disorder \in CrudDisorderSchemas :
           update_disorder(id, disorder)
    \/ \E id \in DisorderIds : delete_disorder(id)
    \/ \E id \in DisorderIds : api_get_disorder(id)
    \/ \E id \in CrudRemedyIds : api_get_remedy(id)
    \/ seed_initial_data
    \/ \E answers \in CrudAnswerLists, uuid \in CrudUuids :
           api_create_assessment(answers, uuid)
    \/ \E session_id \in CrudUuids \cup ClientSessionIds :
           api_get_assessment(session_id)
    \/ \E assessment \in CrudAssessmentSchemas : create_assessment(assessment)
    \/ \E id \in AssessmentIds : get_assessment(id)
    \/ \E id \in AssessmentIds, assessment \in CrudAssessmentSchemas :
           update_assessment(id, assessment)
    \/ \E id \in AssessmentIds : delete_assessment(id)

\* The create, get-by-id, update, delete and seed requests of both surfaces on
\* all four tables.
SpecCrud == Init /\ [][NextCrud]_vars

\* ------------------------------------------------------- failing store calls
\* A store call may raise (the file is locked, the disk is full). No handler
\* catches it: the request is answered 500 and get_db's finally closes the
\* session, which discards what was added since the last commit. What an
\* earlier commit of the same request wrote stays.

\* The handlers that write, each with a single commit.
SingleCommitOps ==
    {"create_disorder", "update_disorder", "delete_disorder",
     "create_assessment", "update_assessment", "delete_assessment",
     "api_create_assessment"}

\* A request of a single-commit handler whose commit (or an earlier store
\* call) raises.
commit_fails(op) ==
    /\ last' = Resp(op, 500, "Internal Server Error")
    /\ UNCHANGED <<disorders, remedies, assessments, questions, requests, sessions>>

\* The places where a store call of seed_initial_data may raise: up to its
\* first db.commit() (the disorders), or after it, up to its second (the
\* remedies and questions).
SeedFailures == {"first_commit", "second_commit"}

\* POST /api/seed-data with a store call that raises at fail_at.
seed_initial_data_failing(fail_at) ==
    /\ Cardinality(DOMAIN disorders) = 0
    /\ NextId(disorders) + Len(disorders_data) - 1 <= MaxDisorderId
    /\ disorders' = IF fail_at = "second_commit"
                    THEN InsertAll(disorders, disorders_data)
                    ELSE disorders
    /\ last' = Resp("seed_initial_data", 500, "Internal Server Error")
    /\ UNCHANGED <<remedies, assessments, questions, requests, sessions>>

NextFailure ==
    \/ NextDisorder
    \/ \E op \in SingleCommitOps : commit_fails(op)
    \/ \E fail_at \in SeedFailures : seed_initial_data_failing(fail_at)

\* The disorder, remedy, question and seed-data requests, any of which may
\* meet a failing store call.
SpecFailure == Init /\ [][NextFailure]_vars

\* ------------------------------------------------------- concurrent requests
\* The routes are plain `def` functions, so each request runs in its own worker
\* thread and the store calls of two requests interleave. A request is modelled
\* by its position: get_db has yielded ("handler"), the existence check has
\* passed ("commit"), the handler has returned or raised ("exit"), get_db's
\* finally has run ("done").

\* How many requests are in flight together.
MaxRequests == 3

RequestIds == 1 .. MaxRequests

\* The Disorder ids a concurrent GET /disorder/{disorder_id} asks for: one that
\* a create may have taken and one that is never in use.
ConcurrentDisorderIds == {1, MaxDisorderId + 1}

\* What the requests in flight ask for: POST /disorder with a body, or
\* GET /disorder/{disorder_id}.
ConcurrentRequests ==
    { [kind |-> "create_disorder", name |-> d.name, description |-> d.description,
       symptoms |-> d.symptoms, disorder_id |-> 0] : d \in CrudDisorderSchemas }
    \cup
    { [kind |-> "get_disorder", name |-> "", description |-> "",
       symptoms |-> "", disorder_id |-> i] : i \in ConcurrentDisorderIds }

\* The session `db` after request r has made a store call through it.
Use(db, r) == [sessions EXCEPT ![db].users = @ \cup {r}]

\* db = SessionLocal(); yield db -- the request arrives and is handed a session
\* of its own. Requests are numbered in the order they arrive.
get_db_open(req) ==
    LET r == NextId(requests)
        db == NextId(sessions)
    IN
    /\ r \in RequestIds
    /\ sessions' = Insert(sessions, db,
                          [state |-> "open", owner |-> r, closes |-> 0, users |-> {}])
    /\ requests' = Insert(requests, r,
                          [kind |-> req.kind, name |-> req.name,
                           description |-> req.description,
                           symptoms |-> req.symptoms,
                           disorder_id |-> req.disorder_id,
                           db |-> db, pc |-> "handler", existing |-> 0,
                           status |-> 0, detail |-> "", created |-> 0])
    /\ UNCHANGED <<disorders, remedies, assessments, questions, last>>

\* POST /disorder, the existence check: db.query(Disorder).filter(name).first(),
\* and the early return when a row is found.
create_disorder_query(r) ==
    /\ r \in DOMAIN requests
    /\ requests[r].kind = "create_disorder"
    /\ requests[r].pc = "handler"
    /\ LET existing == First(disorders,
                             {i \in DOMAIN disorders :
                                  disorders[i].name = requests[r].name})
       IN requests' =
              [requests EXCEPT ![r] =
                  IF existing = 0
                  THEN [@ EXCEPT !.pc = "commit"]
                  ELSE [@ EXCEPT !.pc = "exit", !.existing = existing,
                                 !.status = 200,
                                 !.detail = "Disorder already exists"]]
    /\ sessions' = Use(requests[r].db, r)
    /\ UNCHANGED <<disorders, remedies, assessments, questions, last>>

\* Mutant of create_disorder_commit: the insert made atomic with a second
\* application check, which answers 'Disorder already exists'.
create_disorder_commit_rechecked(r) ==
    /\ r \in DOMAIN requests
    /\ requests[r].kind = "create_disorder"
    /\ requests[r].pc = "commit"
    /\ LET id == NextId(disorders)
       IN IF DisorderNameUnique(disorders, id, requests[r].name)
          THEN /\ disorders' = Insert(disorders, id,
                                      [name |-> requests[r].name,
                                       description |-> requests[r].description,
                                       symptoms |-> requests[r].symptoms])
               /\ requests' = [requests EXCEPT
                                  ![r].pc = "exit", ![r].status = 200,
                                  ![r].detail = "Disorder created successfully",
                                  ![r].created = id]
          ELSE /\ UNCHANGED disorders
               /\ requests' = [requests EXCEPT
                                  ![r].pc = "exit", ![r].status = 200,
                                  ![r].detail = "Disorder already exists"]
    /\ sessions' = Use(requests[r].db, r)
    /\ UNCHANGED <<remedies, assessments, questions, last>>

\* POST /disorder, after the check found nothing: session.add(new_disorder);
\* session.commit(). The unique index on Disorder.name
\* makes the commit raise IntegrityError when a row with the name has been
\* committed since the check; nothing catches it and the request is answered 500.
create_disorder_commit(r) ==
    /\ r \in DOMAIN requests
    /\ requests[r].kind = "create_disorder"
    /\ requests[r].pc = "commit"
    /\ LET id == NextId(disorders)
       IN IF DisorderNameUnique(disorders, id, requests[r].name)
          THEN /\ disorders' = Insert(disorders, id,
                                      [name |-> requests[r].name,
                                       description |-> requests[r].description,
                                       symptoms |-> requests[r].symptoms])
               /\ requests' = [requests EXCEPT
                                  ![r].pc = "exit", ![r].status = 200,
                                  ![r].detail = "Disorder created successfully",
                                  ![r].created = id]
          ELSE /\ UNCHANGED disorders
               /\ requests' = [requests EXCEPT
                                  ![r].pc = "exit", ![r].status = 500,
                                  ![r].detail = "Internal Server Error"]
    /\ sessions' = Use(requests[r].db, r)
    /\ UNCHANGED <<remedies, assessments, questions, last>>

\* GET /disorder/{disorder_id}: the lookup, then the row or HTTPException(404).
get_disorder_query(r) ==
    /\ r \in DOMAIN requests
    /\ requests[r].kind = "get_disorder"
    /\ requests[r].pc = "handler"
    /\ requests' =
           [requests EXCEPT ![r] =
               IF requests[r].disorder_id \in DOMAIN disorders
               THEN [@ EXCEPT !.pc = "exit", !.existing = requests[r].disorder_id,
                              !.status = 200]
               ELSE [@ EXCEPT !.pc = "exit", !.status = 404,
                              !.detail = "Disorder not found"]]
    /\ sessions' = Use(requests[r].db, r)
    /\ UNCHANGED <<disorders, remedies, assessments, questions, last>>

\* Mutant of get_db_close: get_db without try/finally, so db.close() runs only
\* when the handler returned.
get_db_close_on_return(r) ==
    /\ r \in DOMAIN requests
    /\ requests[r].pc = "exit"
    /\ sessions' = IF requests[r].status = 200
                   THEN [sessions EXCEPT ![requests[r].db].state = "closed",
                                         ![requests[r].db].closes = @ + 1]
                   ELSE sessions
    /\ requests' = [requests EXCEPT ![r].pc = "done"]
    /\ UNCHANGED <<disorders, remedies, assessments, questions, last>>

\* finally: db.close() -- runs when the handler returned and when it raised
\* (HTTPException or a store error thrown back into the generator).
get_db_close(r) ==
    /\ r \in DOMAIN requests
    /\ requests[r].pc = "exit"
    /\ sessions' = [sessions EXCEPT ![requests[r].db].state = "closed",
                                    ![requests[r].db].closes = @ + 1]
    /\ requests' = [requests EXCEPT ![r].pc = "done"]
    /\ UNCHANGED <<disorders, remedies, assessments, questions, last>>

\* One step of the worker thread that serves request r.
RequestStep(r) ==
    \/ create_disorder_query(r)
    \/ create_disorder_commit(r)
    \/ get_disorder_query(r)
    \/ get_db_close(r)

NextConcurrent ==
    \/ \E req \in ConcurrentRequests : get_db_open(req)
    \/ \E r \in RequestIds : RequestStep(r)

\* Up to MaxRequests requests served concurrently. A worker thread that has a
\* step to take takes it: no handler waits for another request, and a finally
\* block runs whenever its try is left.
SpecConcurrent ==
    /\ Init
    /\ [][NextConcurrent]_vars
    /\ \A r \in RequestIds : WF_vars(RequestStep(r))

\* The answer lists the scoring engine is applied to.
AnswerSeqs == UNION {[1 .. n -> AnswerAlphabet] : n \in MinAnswers .. MaxAnswers}

\* An answer list waiting to be scored.
InitClassify ==
    /\ disorders = EmptyTable
    /\ remedies = EmptyTable
    /\ assessments = EmptyTable
    /\ questions = EmptyTable
    /\ requests = EmptyTable
    /\ sessions = EmptyTable
    /\ \E answers \in AnswerSeqs :
           last = [Resp("classify", 0, "") EXCEPT !.req_answers = PyList(answers)]

\* calculate_assessment_result applied to the waiting answer list.
Classify ==
    /\ last.op = "classify"
    /\ last.status = 0
    /\ LET result_data == calculate_assessment_result(last.req_answers.l)
       IN last' = [last EXCEPT !.status = 200,
                               !.result = result_data.result,
                               !.severity = result_data.severity,
                               !.severity_score = result_data.severity_score,
                               !.remedies = result_data.remedies]
    /\ UNCHANGED <<disorders, remedies, assessments, questions, requests, sessions>>

\* The scoring engine on its own, over every bounded answer list.
SpecClassify == InitClassify /\ [][Classify]_vars

\* The assessment requests of both surfaces.
SpecAssessment == Init /\ [][NextAssessment]_vars

\* -------------------------------------------------------------------- claims

\* The tables a disorder request must leave alone.
OtherTablesUnchanged ==
    /\ assessments' = assessments
    /\ questions' = questions

\* C1: in every reachable state no two Disorder rows have the same name,
\* whatever create, update (to any name, another row's included), delete and
\* seed-data requests came before.
C1_DisorderNamesUnique ==
    \A i \in DOMAIN disorders : \A j \in DOMAIN disorders :
        i # j => disorders[i].name # disorders[j].name

\* C1 witness: a PATCH that set a row's name to the name of another row was
\* answered, with both rows still in the table.
C1_Witness ==
    /\ last.op = "update_disorder"
    /\ last.status = 500
    /\ \E i \in DOMAIN disorders :
          i # last.req_id /\ disorders[i].name = last.req_name

\* C2: a create-Disorder whose name is already in the store succeeds with the
\* 'Disorder already exists' message, leaves every table unchanged (so the
\* existing row keeps its description and symptoms) and leaves exactly one row
\* with that name.
C2_CreateExistingIsNoOp ==
    [][ ( /\ last'.op = "create_disorder"
          /\ \E i \in DOMAIN disorders : disorders[i].name = last'.req_name )
        => ( /\ last'.status = 200
             /\ last'.detail = "Disorder already exists"
             /\ disorders' = disorders
             /\ remedies' = remedies
             /\ OtherTablesUnchanged
             /\ Cardinality({i \in DOMAIN disorders' :
                               disorders'[i].name = last'.req_name}) = 1 ) ]_vars

\* C2 witness: a second create of an existing name, with a description and
\* symptoms that differ from the stored row's, was answered.
C2_Witness ==
    /\ last.op = "create_disorder"
    /\ last.detail = "Disorder already exists"
    /\ \E i \in DOMAIN disorders :
          /\ disorders[i].name = last.req_name
          /\ disorders[i].description # last.req_description
          /\ disorders[i].symptoms # last.req_symptoms

\* C3: deleting an existing Disorder removes, in the same step, the Disorder
\* and every Remedy whose disorder_id referenced it; get-Remedy-by-id on each
\* of those ids then answers 404, and the Remedy rows of other Disorders are
\* untouched.
C3_DeleteCascades ==
    [][ ( /\ last'.op = "delete_disorder"
          /\ last'.req_id \in DOMAIN disorders )
        => LET gone == {r \in DOMAIN remedies :
                          remedies[r].disorder_id = last'.req_id}
           IN /\ last'.status = 200
              /\ last'.req_id \notin DOMAIN disorders'
              /\ \A r \in gone :
                    api_get_remedy_response(remedies', r).status = 404
              /\ \A r \in DOMAIN remedies \ gone :
                    /\ r \in DOMAIN remedies'
                    /\ remedies'[r] = remedies[r]
              /\ DOMAIN remedies' \subseteq DOMAIN remedies ]_vars

\* C3 witness: a seeded Disorder was just deleted: its three Remedy rows are
\* gone and the Remedy rows of another Disorder are still there.
C3_Witness ==
    /\ last.op = "delete_disorder"
    /\ last.status = 200
    /\ DOMAIN remedies # {}
    /\ Cardinality(DOMAIN remedies) < Len(remedies_data)
    /\ \A r \in DOMAIN remedies : remedies[r].disorder_id # last.req_id

\* C4: in every reachable state every Remedy row's disorder_id is the id of a
\* Disorder row that exists.
C4_NoOrphanRemedy ==
    \A r \in DOMAIN remedies : remedies[r].disorder_id \in DOMAIN disorders

\* C4 witness: after seeding, the Disorder with the largest id was deleted and
\* its id was handed out again to a created Disorder, while Remedy rows of the
\* other seeded Disorders remain.
C4_Witness ==
    /\ last.op = "create_disorder"
    /\ last.detail = "Disorder created successfully"
    /\ DOMAIN remedies # {}
    /\ \E d \in DOMAIN disorders :
          /\ disorders[d].name = last.req_name
          /\ d = Len(disorders_data)
          /\ \A r \in DOMAIN remedies : remedies[r].disorder_id # d

\* C5 (as claimed): no step changes the session_id stored in an Assessment
\* row that exists before and after the step.
C5_SessionIdImmutable ==
    [][ \A i \in DOMAIN assessments \cap DOMAIN assessments' :
            assessments'[i].session_id = assessments[i].session_id ]_vars

\* C6: in every reachable state no two Assessment rows share a session_id,
\* whatever submissions, client-supplied creations and updates came before.
C6_SessionIdsUnique ==
    \A i \in DOMAIN assessments : \A j \in DOMAIN assessments :
        i # j => assessments[i].session_id # assessments[j].session_id

\* C6 witness: a POST /assessment with a session_id that a stored row already
\* holds was answered.
C6_Witness ==
    /\ last.op = "create_assessment"
    /\ last.status = 500
    /\ \E i \in DOMAIN assessments :
          assessments[i].session_id = last.req_session_id

\* C7: a submission with fewer than 5 answers (none included) is answered 400,
\* leaves every table as it was and returns no session token.
C7_TooFewAnswersRejected ==
    [][ ( /\ last'.op = "api_create_assessment"
          /\ Len(last'.req_answers.l) < 5 )
        => ( /\ last'.status = 400
             /\ last'.session_id = ""
             /\ assessments' = assessments
             /\ disorders' = disorders
             /\ remedies' = remedies
             /\ questions' = questions ) ]_vars

\* C7 witness: a submission of four answers was rejected while the store
\* already held an Assessment.
C7_Witness ==
    /\ last.op = "api_create_assessment"
    /\ last.status = 400
    /\ Len(last.req_answers.l) = 4
    /\ DOMAIN assessments # {}

C9_AnswersRoundTrip ==
    ( /\ last.op = "api_create_assessment"
      /\ last.status = 200 )
    => LET got == api_get_assessment_response(assessments, last.session_id)
       IN /\ got.status = 200
          /\ got.answers.t = "list"
          /\ Len(got.answers.l) = Len(last.req_answers.l)
          /\ \A k \in DOMAIN last.req_answers.l :
                got.answers.l[k] = last.req_answers.l[k]

\* C9 witness: a submission holding an empty answer and an answer made of
\* quotes, a comma, a space and a backslash succeeded.
C9_Witness ==
    /\ last.op = "api_create_assessment"
    /\ last.status = 200
    /\ \E k \in DOMAIN last.req_answers.l : last.req_answers.l[k] = Quoted
    /\ \E k \in DOMAIN last.req_answers.l : last.req_answers.l[k] = Empty

\* "yes", compared without regard to case, stated character by character.
IsYes(answer) ==
    /\ Len(answer) = 3
    /\ answer[1] \in {"y", "Y"}
    /\ answer[2] \in {"e", "E"}
    /\ answer[3] \in {"s", "S"}

\* C10: for every answer list of length >= 5 over the alphabet, the score is
\* the number of answers that are "yes" without regard to case; the tier is
\* high exactly when score >= 4, medium exactly when 2 <= score <= 3 and low
\* exactly when score <= 1; each tier has its own narrative and five remedies;
\* six yes give score 6 and tier high.
C10_Classification ==
    ( /\ last.op = "classify"
      /\ last.status = 200 )
    => LET answers == last.req_answers.l
           n == Cardinality({k \in DOMAIN answers : IsYes(answers[k])})
       IN /\ last.severity_score = n
          /\ last.severity \in {"high", "medium", "low"}
          /\ (last.severity = "high") <=> (n >= 4)
          /\ (last.severity = "medium") <=> (n >= 2 /\ n <= 3)
          /\ (last.severity = "low") <=> (n <= 1)
          /\ (last.severity = "high") <=>
                (last.result = HighResult /\ last.remedies = HighRemedies)
          /\ (last.severity = "medium") <=>
                (last.result = MediumResult /\ last.remedies = MediumRemedies)
          /\ (last.severity = "low") <=>
                (last.result = LowResult /\ last.remedies = LowRemedies)
          /\ Len(last.remedies) = 5
          /\ Cardinality({HighResult, MediumResult, LowResult}) = 3
          /\ (answers = <<Yes, Yes, Yes, Yes, Yes, Yes>>)
                => (last.severity_score = 6 /\ last.severity = "high")

\* C10 witness: six answers, four of them "yes" in three spellings, were
\* scored 4 and tiered high.
C10_Witness ==
    /\ last.op = "classify"
    /\ last.status = 200
    /\ last.req_answers.l = <<YesUpper, No, YesMixed, Yes, Empty, Yes>>
    /\ last.severity = "high"
    /\ last.severity_score = 4

\* C13 (as claimed): the seed rows are inserted once only: no text of
\* questions_data is ever held by two Question rows, and no seed-data call
\* adds rows to a store that already holds seed data, deletions of the seeded
\* Disorders between two seed calls included.
C13_SeededOnce ==
    /\ \A p \in DOMAIN questions : \A q \in DOMAIN questions :
          p # q => questions[p].text # questions[q].text
    /\ Cardinality(DOMAIN questions) <= Len(questions_data)

\* C16 (as claimed): every Assessment row has a severity_score in 0..5 and a
\* result that is one of low, medium, high.
C16_ScoreAndResultInRange ==
    \A i \in DOMAIN assessments :
        /\ assessments[i].severity_score \in 0 .. 5
        /\ assessments[i].result \in {"low", "medium", "high"}

\* Every table is as it was before the step.
StoreUnchanged ==
    /\ disorders' = disorders
    /\ remedies' = remedies
    /\ assessments' = assessments
    /\ questions' = questions

\* A get, update or delete that names an id (or session token) the store does
\* not hold is answered 404 and leaves every table unchanged.
AbsentIsNotFound ==
    ( \/ /\ last'.op \in {"get_disorder", "api_get_disorder",
                          "update_disorder", "delete_disorder"}
         /\ last'.req_id \notin DOMAIN disorders
      \/ /\ last'.op \in {"get_assessment", "update_assessment", "delete_assessment"}
         /\ last'.req_id \notin DOMAIN assessments
      \/ /\ last'.op = "api_get_remedy"
         /\ last'.req_id \notin DOMAIN remedies
      \/ /\ last'.op = "api_get_assessment"
         /\ \A i \in DOMAIN assessments :
               assessments[i].session_id # last'.req_session_id )
    => ( last'.status = 404 /\ StoreUnchanged )

\* C11 (as claimed): a get, update or delete on an id that is not in the store
\* is NotFound and changes nothing, and an id that was deleted is NotFound for
\* whatever is asked later: the request that follows a successful delete, and
\* so every later one, finds the deleted id absent.
C11_DeletedStaysNotFound ==
    [][ /\ AbsentIsNotFound
        /\ (last.op = "delete_disorder" /\ last.status = 200)
              => last.req_id \notin DOMAIN disorders'
        /\ (last.op = "delete_assessment" /\ last.status = 200)
              => last.req_id \notin DOMAIN assessments' ]_vars

\* C11 (amended): a get, update or delete on an id that is not in the store
\* is NotFound and changes nothing; a successful delete leaves its id absent,
\* and an absent id becomes present again only by a successful create (or
\* seed), which may hand out the id of a deleted row again.
C11_NotFoundUntilCreatedAgain ==
    [][ /\ AbsentIsNotFound
        /\ (last'.op = "delete_disorder" /\ last'.status = 200)
              => last'.req_id \notin DOMAIN disorders'
        /\ (last'.op = "delete_assessment" /\ last'.status = 200)
              => last'.req_id \notin DOMAIN assessments'
        /\ \A i \in DOMAIN disorders' \ DOMAIN disorders :
              /\ last'.op \in {"create_disorder", "seed_initial_data"}
              /\ last'.status = 200
        /\ \A i \in DOMAIN assessments' \ DOMAIN assessments :
              /\ last'.op \in {"create_assessment", "api_create_assessment"}
              /\ last'.status = 200
        /\ \A r \in DOMAIN remedies' \ DOMAIN remedies :
              last'.op = "seed_initial_data" ]_vars

\* C11 witness: a delete of Disorder 1 was answered 404 while Disorder 2 is in
\* the store; ids are handed out in order, so Disorder 1 existed and was
\* deleted before.
C11_Witness ==
    /\ last.op = "delete_disorder"
    /\ last.status = 404
    /\ last.req_id = 1
    /\ 2 \in DOMAIN disorders
    /\ DOMAIN assessments # {}

\* C17: a successful update of a Disorder writes the body's name, description
\* and symptoms into that row and changes nothing else: the row keeps its id,
\* the Remedy rows (those attached to it included) are unchanged, and so is
\* every other Disorder, Assessment and Question row.
C17_UpdateDisorderFrame ==
    [][ ( /\ last'.op = "update_disorder"
          /\ last'.status = 200 )
        => LET id == last'.req_id
           IN /\ id \in DOMAIN disorders
              /\ DOMAIN disorders' = DOMAIN disorders
              /\ disorders'[id].name = last'.req_name
              /\ disorders'[id].description = last'.req_description
              /\ disorders'[id].symptoms = last'.req_symptoms
              /\ \A j \in DOMAIN disorders : j # id => disorders'[j] = disorders[j]
              /\ remedies' = remedies
              /\ assessments' = assessments
              /\ questions' = questions ]_vars

\* C17 witness: a seeded Disorder with its three Remedy rows was just updated
\* to new values, with another Disorder, Assessment rows and Question rows in
\* the store.
C17_Witness ==
    /\ last.op = "update_disorder"
    /\ last.status = 200
    /\ last.req_id \in DOMAIN disorders
    /\ disorders[last.req_id].symptoms = "Updated symptoms"
    /\ Cardinality({r \in DOMAIN remedies :
                      remedies[r].disorder_id = last.req_id}) = 3
    /\ Cardinality(DOMAIN disorders) > 1
    /\ DOMAIN assessments # {}
    /\ DOMAIN questions # {}

\* C12 (as claimed): a request that fails (a store call or commit raised, the
\* request is answered 500) leaves every table exactly as it was before the
\* request began.
C12_AllOrNothing ==
    [][ last'.status = 500 => StoreUnchanged ]_vars

\* Every request in flight holds one open session of its own, which no other
\* request has used; every completed request's session has been closed once;
\* and there is no session without its request.
SessionScoped ==
    /\ \A r \in DOMAIN requests :
          LET db == requests[r].db
          IN /\ db \in DOMAIN sessions
             /\ sessions[db].owner = r
             /\ sessions[db].users \subseteq {r}
             /\ \A q \in DOMAIN requests : requests[q].db = db => q = r
             /\ IF requests[r].pc = "done"
                THEN sessions[db].state = "closed" /\ sessions[db].closes = 1
                ELSE sessions[db].state = "open" /\ sessions[db].closes = 0
    /\ \A db \in DOMAIN sessions :
          /\ sessions[db].owner \in DOMAIN requests
          /\ requests[sessions[db].owner].db = db

\* Request r has completed and its session is closed.
Released(r) ==
    /\ r \in DOMAIN requests
    /\ requests[r].pc = "done"
    /\ sessions[requests[r].db].state = "closed"

\* C14: every request acquires one session of its own at its start, no other
\* request uses it, and it is released exactly once on every exit path (normal
\* return, HTTP 404, a store call that raised): no session is open once its
\* request has completed, and every request that arrived is eventually released.
C14_SessionReleasedOnce ==
    /\ []SessionScoped
    /\ \A r \in RequestIds : (r \in DOMAIN requests) ~> Released(r)

\* Two requests have completed, one answered 404 and one whose store call
\* raised (500), and both sessions are closed.
C14_Witness ==
    \E r, q \in DOMAIN requests :
        /\ Released(r) /\ requests[r].status = 404
        /\ Released(q) /\ requests[q].status = 500

\* C15: a create-Disorder request that passed the existence check never gets
\* 'Disorder already exists' afterwards: its insert is decided by the store
\* alone, which stores the row when no row has the name and otherwise raises
\* (500) and stores nothing.
C15_StoreDecidesSecondInsert ==
    [][ \A r \in DOMAIN requests :
           (/\ requests[r].kind = "create_disorder"
            /\ requests[r].pc = "commit"
            /\ requests'[r].pc = "exit")
           => /\ requests'[r].detail # "Disorder already exists"
              /\ IF \E i \in DOMAIN disorders : disorders[i].name = requests[r].name
                 THEN requests'[r].status = 500 /\ disorders' = disorders
                 ELSE /\ requests'[r].status = 200
                      /\ requests'[r].created \in DOMAIN disorders' \ DOMAIN disorders
                      /\ disorders'[requests'[r].created].name = requests[r].name
      ]_vars

\* Two create-Disorder requests for the same absent name both passed the check
\* before either committed; one was stored, the other was refused by the store.
C15_Witness ==
    \E r, q \in DOMAIN requests :
        /\ r # q
        /\ requests[r].kind = "create_disorder"
        /\ requests[q].kind = "create_disorder"
        /\ requests[r].name = requests[q].name
        /\ requests[r].existing = 0 /\ requests[q].existing = 0
        /\ requests[r].status = 200 /\ requests[r].created # 0
        /\ requests[q].status = 500
        /\ Cardinality({i \in DOMAIN disorders : disorders[i].name = requests[r].name}) = 1

====
